---------------------------- MODULE Spec2Model ----------------------------
(***************************************************************************)
(* Model of attendance_dashboard.py: one Streamlit script run, top to      *)
(* bottom, and a session of such runs sharing the st.cache_data cache of   *)
(* load_data.                                                              *)
(*                                                                         *)
(* Data representation.                                                    *)
(*   - A dataframe is a sequence of records (its rows, in row order).      *)
(*   - A timestamp is a natural number of ticks; TicksPerDay ticks make    *)
(*     one calendar day, so Timestamp.date() is  ts \div TicksPerDay.      *)
(*   - NaT (missing datetime) and NaN (missing number) are -1; a missing   *)
(*     string cell is the string NA.                                       *)
(*   - Duration_Hours is an exact rational <<numerator, denominator>> in   *)
(*     lowest terms (floating-point rounding is not modelled).             *)
(***************************************************************************)
EXTENDS Integers, Sequences, FiniteSets, TLC

\* ------------------------------------------------------------------------
\* Bounds of the model
\* ------------------------------------------------------------------------
MaxRows == 2
MaxMaster == 2
MaxDay == 3
TicksPerDay == 2

\* ------------------------------------------------------------------------
\* Missing values
\* ------------------------------------------------------------------------
NaT == -1
NaN == -1
NA == "<NA>"

\* ------------------------------------------------------------------------
\* Generic helpers on sequences and sets
\* ------------------------------------------------------------------------
RECURSIVE SumSeq(_)
SumSeq(s) == IF s = <<>> THEN 0 ELSE s[1] + SumSeq(Tail(s))

RECURSIVE Gcd(_, _)
Gcd(a, b) == IF b = 0 THEN a ELSE Gcd(b, a % b)

\* exact rationals  <<n, d>>, d > 0, n >= 0
Rat(n, d) == LET g == Gcd(n, d) IN <<n \div g, d \div g>>
RatAdd(p, q) == Rat(p[1] * q[2] + q[1] * p[2], p[2] * q[2])
RatLess(p, q) == p[1] * q[2] < q[1] * p[2]

RECURSIVE RatSum(_)
RatSum(s) == IF s = <<>> THEN Rat(0, 1) ELSE RatAdd(s[1], RatSum(Tail(s)))

Column(df, col) == [i \in 1..Len(df) |-> df[i][col]]

MinOf(S) == CHOOSE x \in S : \A y \in S : x <= y
MaxOf(S) == CHOOSE x \in S : \A y \in S : y <= x

\* all orderings of a finite set, as sequences without repetition
Orderings(S) == {p \in [1..Cardinality(S) -> S] : \A i, j \in 1..Cardinality(S) : i # j => p[i] # p[j]}

\* ------------------------------------------------------------------------
\* pandas primitives used by load_data
\* ------------------------------------------------------------------------
\* A Date cell of the spreadsheet: a datetime cell carrying a timestamp,
\* a text cell that does not parse as a date, or a blank cell.
DatetimeCell(ts) == [kind |-> "datetime", val |-> ts]
UnparseableCell == [kind |-> "unparseable", val |-> 0]
BlankCell == [kind |-> "blank", val |-> 0]

\* pd.to_datetime(x, errors="coerce")
ToDatetime(cell) == IF cell.kind = "datetime" THEN cell.val ELSE NaT

\* Timestamp.date() / Series.dt.date / Series.dt.normalize()
DateOf(ts) == ts \div TicksPerDay

\* Series.fillna(0).astype(float)
FillNa0(m) == IF m = NaN THEN 0 ELSE m

\* Duration_Minutes / 60.0
HoursOf(m) == Rat(m, 60)

\* DataFrame.dropna(subset=["Date"])
DropNaDate(df) == SelectSeq(df, LAMBDA r : r.Date # NaT)

\* attendance rows after lines 38-44
CleanRow(raw) == [Date |-> ToDatetime(raw.Date), Student_Name |-> raw.Student_Name, Teacher_Name |-> raw.Teacher_Name, Subject |-> raw.Subject, Duration_Minutes |-> FillNa0(raw.Duration_Minutes), Duration_Hours |-> HoursOf(FillNa0(raw.Duration_Minutes))]

\* (variant: the rows with NaT are kept)
CleanAttendanceKeepNaT(attendance) == [i \in 1..Len(attendance) |-> CleanRow(attendance[i])]

CleanAttendance(attendance) == DropNaDate([i \in 1..Len(attendance) |-> CleanRow(attendance[i])])

\* one output row of the merge: the left row plus the master columns
\* (Name renamed to Student_Name_Master)
JoinRow(l, m) == [Date |-> l.Date, Student_Name |-> l.Student_Name, Teacher_Name |-> l.Teacher_Name, Subject |-> l.Subject, Duration_Minutes |-> l.Duration_Minutes, Duration_Hours |-> l.Duration_Hours, Student_ID |-> m.Student_ID, Student_Name_Master |-> m.Name, Grade |-> m.Grade, Email |-> m.Email, Status |-> m.Status]

\* the master columns of a left row without a match
NullMaster == [Student_ID |-> NaN, Name |-> NA, Grade |-> NaN, Email |-> NA, Status |-> NA]

\* the rows a single left row contributes to a how="left" merge: one per
\* matching right row, in right order (a missing key matches a missing key),
\* or one row with null master columns when nothing matches
MatchesOf(l, students) == SelectSeq(students, LAMBDA m : m.Name = l.Student_Name)
LeftRows(l, students) == IF MatchesOf(l, students) = <<>> THEN <<JoinRow(l, NullMaster)>> ELSE [j \in 1..Len(MatchesOf(l, students)) |-> JoinRow(l, MatchesOf(l, students)[j])]

RECURSIVE MergeLeft(_, _)
MergeLeft(left, students) == IF left = <<>> THEN <<>> ELSE LeftRows(left[1], students) \o MergeLeft(Tail(left), students)

\* load_data's return value for two readable workbooks
load_data_frames(attendance, students) == [df |-> MergeLeft(CleanAttendance(attendance), students), students |-> students]

\* ------------------------------------------------------------------------
\* Files on disk and pd.read_excel
\* ------------------------------------------------------------------------
\* A file is missing, unreadable as a workbook (corrupt), a workbook without
\* the expected columns, or a workbook with rows.
MissingFile == [kind |-> "missing", rows |-> <<>>]
CorruptFile == [kind |-> "corrupt", rows |-> <<>>]
NoColumnsFile == [kind |-> "no_columns", rows |-> <<>>]
Workbook(rows) == [kind |-> "xlsx", rows |-> rows]

AttendancePaths == {"attendance_master_nov.xlsx", "attendance_master_dec.xlsx"}
DefaultMasterPath == "nowclasses_final_master.xlsx"
MasterPaths == {DefaultMasterPath, "other_master.xlsx"}
Paths == AttendancePaths \cup MasterPaths

\* Python exception classes raised while loading, and the two except clauses
FileNotFoundErrors == {"FileNotFoundError"}
Exceptions == {"FileNotFoundError", "ValueError", "KeyError"}

\* pd.read_excel(path): the exception it raises, or "none"
ReadExcelRaises(file) == CASE file.kind = "missing" -> "FileNotFoundError" [] file.kind = "corrupt" -> "ValueError" [] OTHER -> "none"

\* body of load_data: attendance is read first, then the master; indexing a
\* column the workbook lacks raises KeyError
load_data(attendance_file, master_file) ==
    IF ReadExcelRaises(attendance_file) # "none" THEN [raised |-> ReadExcelRaises(attendance_file), value |-> <<>>]
    ELSE IF ReadExcelRaises(master_file) # "none" THEN [raised |-> ReadExcelRaises(master_file), value |-> <<>>]
    ELSE IF attendance_file.kind = "no_columns" \/ master_file.kind = "no_columns" THEN [raised |-> "KeyError", value |-> <<>>]
    ELSE [raised |-> "none", value |-> load_data_frames(attendance_file.rows, master_file.rows)]

\* @st.cache_data: the key of a call is its argument tuple
CacheKey(attendance_path, student_master_path) == <<attendance_path, student_master_path>>

\* try/except around the call: which message the boundary shows for an
\* exception, "uncaught" when no clause matches
\* (variant: only the FileNotFoundError clause)
ExceptClauseNarrow(exc) == IF exc \in FileNotFoundErrors THEN "error:file_not_found" ELSE "uncaught"

ExceptClause(exc) == IF exc \in FileNotFoundErrors THEN "error:file_not_found" ELSE IF exc \in Exceptions THEN "error:load_error" ELSE "uncaught"

\* glob.glob("*attendance_master*.xlsx")
Glob(d) == {p \in AttendancePaths : d[p].kind # "missing"}

\* ------------------------------------------------------------------------
\* Filters
\* ------------------------------------------------------------------------
\* sorted(df[col].dropna().unique().tolist()), as the set of options
OptionList(df, col) == {df[i][col] : i \in 1..Len(df)} \ {NA}

DatesOf(df) == {df[i].Date : i \in 1..Len(df)}

\* the value st.date_input returns: a tuple of 0, 1 or 2 dates, or one date
DateInputs(lo, hi) == {[tuple |-> TRUE, v |-> <<>>]} \cup {[tuple |-> t, v |-> <<d>>] : t \in BOOLEAN, d \in lo..hi} \cup {[tuple |-> TRUE, v |-> <<a, b>>] : a \in lo..hi, b \in lo..hi}

\* lines 173-185
RawStart(date_range, lo) == IF date_range.tuple /\ Len(date_range.v) = 0 THEN lo ELSE date_range.v[1]
RawEnd(date_range, hi) == IF date_range.tuple /\ Len(date_range.v) = 0 THEN hi ELSE IF date_range.tuple /\ Len(date_range.v) = 2 THEN date_range.v[2] ELSE date_range.v[1]

\* lines 194-195
NormStart(a, b) == IF a > b THEN b ELSE a
NormEnd(a, b) == IF a > b THEN a ELSE b

IsIn(df, col, selected) == SelectSeq(df, LAMBDA r : r[col] \in selected)

\* (variant: the timestamp is compared with midnight of the bounds)
DateMaskTimestamp(r, start, end) == r.Date >= start * TicksPerDay /\ r.Date <= end * TicksPerDay

DateMask(r, start, end) == DateOf(r.Date) >= start /\ DateOf(r.Date) <= end

FilterDates(df, start, end) == SelectSeq(df, LAMBDA r : DateMask(r, start, end))

\* (variant: isin is applied even to an empty selection)
FilterByAlways(df, col, selected) == IsIn(df, col, selected)

FilterBy(df, col, selected) == IF selected # {} THEN IsIn(df, col, selected) ELSE df

ApplyFiltersTo(df, ss, sj, st, start, end) == FilterDates(FilterBy(FilterBy(FilterBy(df, "Student_Name", ss), "Subject", sj), "Teacher_Name", st), start, end)

\* ------------------------------------------------------------------------
\* Aggregation
\* ------------------------------------------------------------------------
\* lexicographic order of the names used as cell values
NameOrder == <<"Amy", "Bob", "Math", "Sci", "Tom", "Uma", "Zed">>
Rank(name) == CHOOSE i \in 1..Len(NameOrder) : NameOrder[i] = name

SortedNames(S) == CHOOSE p \in Orderings(S) : \A i, j \in 1..Cardinality(S) : i < j => Rank(p[i]) < Rank(p[j])
SortedInts(S) == CHOOSE p \in Orderings(S) : \A i, j \in 1..Cardinality(S) : i < j => p[i] < p[j]

\* Series.nunique(): missing values are not counted
NUnique(df, col) == Cardinality(OptionList(df, col))

\* groupby(col): the group keys, sorted (sort=True), missing keys dropped
\* (dropna=True)
GroupKeys(df, col) == SortedNames(OptionList(df, col))
Group(df, col, k) == SelectSeq(df, LAMBDA r : r[col] = k)

TotalMinutes(df) == SumSeq(Column(df, "Duration_Minutes"))
TotalHours(df) == RatSum(Column(df, "Duration_Hours"))

\* lines 233-239
Overview(df) == [total_duration_hours |-> TotalHours(df), total_duration_minutes |-> TotalMinutes(df), unique_students |-> NUnique(df, "Student_Name"), unique_subjects |-> NUnique(df, "Subject"), unique_teachers |-> NUnique(df, "Teacher_Name"), unique_dates |-> Cardinality({DateOf(d) : d \in DatesOf(df)}), total_records |-> Len(df)]

StudentRow(g, k) == [Student_Name |-> k, Total_Duration_Minutes |-> TotalMinutes(g), Total_Duration_Hours |-> TotalHours(g), Sessions |-> Len(g), First_Date |-> DateOf(MinOf(DatesOf(g))), Last_Date |-> DateOf(MaxOf(DatesOf(g)))]
TeacherRow(g, k) == [Teacher_Name |-> k, Total_Duration_Hours |-> TotalHours(g), Sessions |-> Len(g), Unique_Students |-> NUnique(g, "Student_Name")]
SubjectRow(g, k) == [Subject |-> k, Total_Duration_Hours |-> TotalHours(g), Sessions |-> Len(g), Unique_Students |-> NUnique(g, "Student_Name")]
StudentSubjectRow(g, k) == [Subject |-> k, Total_Duration_Hours |-> TotalHours(g), Sessions |-> Len(g), Unique_Dates |-> Cardinality({DateOf(d) : d \in DatesOf(g)})]

\* groupby(col).agg(...).reset_index(): one row per group key, in key order
GroupByStudent(df) == [i \in 1..Len(GroupKeys(df, "Student_Name")) |-> StudentRow(Group(df, "Student_Name", GroupKeys(df, "Student_Name")[i]), GroupKeys(df, "Student_Name")[i])]
GroupByTeacher(df) == [i \in 1..Len(GroupKeys(df, "Teacher_Name")) |-> TeacherRow(Group(df, "Teacher_Name", GroupKeys(df, "Teacher_Name")[i]), GroupKeys(df, "Teacher_Name")[i])]
GroupBySubject(df) == [i \in 1..Len(GroupKeys(df, "Subject")) |-> SubjectRow(Group(df, "Subject", GroupKeys(df, "Subject")[i]), GroupKeys(df, "Subject")[i])]
GroupByStudentSubject(df) == [i \in 1..Len(GroupKeys(df, "Subject")) |-> StudentSubjectRow(Group(df, "Subject", GroupKeys(df, "Subject")[i]), GroupKeys(df, "Subject")[i])]

\* sort_values("Total_Duration_Hours", ascending=False) with the default
\* kind="quicksort", which is not stable: every arrangement of the rows in
\* non-increasing order of the column is a possible result
Permute(frame, p) == [i \in 1..Len(frame) |-> frame[p[i]]]
IsDescending(frame) == \A i \in 1..(Len(frame) - 1) : ~RatLess(frame[i].Total_Duration_Hours, frame[i + 1].Total_Duration_Hours)
\* (variant: ascending=True)
SortValuesAscending(frame) == {Permute(frame, p) : p \in {q \in Orderings(1..Len(frame)) : \A i \in 1..(Len(frame) - 1) : ~RatLess(Permute(frame, q)[i + 1].Total_Duration_Hours, Permute(frame, q)[i].Total_Duration_Hours)}}

SortValuesDescending(frame) == {Permute(frame, p) : p \in {q \in Orderings(1..Len(frame)) : IsDescending(Permute(frame, q))}}

\* lines 364-369: groupby(Date.dt.date), ascending by date
DailyRow(df, d) == [Session_Date |-> d, Total_Duration_Hours |-> TotalHours(SelectSeq(df, LAMBDA r : DateOf(r.Date) = d))]
DailySummary(df) == [i \in 1..Cardinality({DateOf(d) : d \in DatesOf(df)}) |-> DailyRow(df, SortedInts({DateOf(d) : d \in DatesOf(df)})[i])]

\* lines 381-390: pivot_table(index=DateOnly, columns=Subject, sum, fill 0);
\* rows with a missing Subject take no part
PivotRows(df) == SelectSeq(df, LAMBDA r : r.Subject # NA)
DateSubjectPivot(df) == [index |-> SortedInts({DateOf(d) : d \in DatesOf(PivotRows(df))}), columns |-> GroupKeys(df, "Subject"), cell |-> [c \in {DateOf(d) : d \in DatesOf(PivotRows(df))} \X OptionList(df, "Subject") |-> TotalHours(SelectSeq(df, LAMBDA r : DateOf(r.Date) = c[1] /\ r.Subject = c[2]))]]

\* lines 408-420: the displayed columns, sorted by Date then Student_Name
\* (lexsort: stable, missing names last)
DisplayRow(r) == [Date |-> r.Date, Student_Name |-> r.Student_Name, Teacher_Name |-> r.Teacher_Name, Subject |-> r.Subject, Duration_Minutes |-> r.Duration_Minutes, Duration_Hours |-> r.Duration_Hours]
SourceRow(r) == [Date |-> r.Date, Student_Name |-> r.Student_Name, Teacher_Name |-> r.Teacher_Name, Subject |-> r.Subject, Duration_Minutes |-> r.Duration_Minutes, Duration_Hours |-> r.Duration_Hours, Source_File |-> r.Source_File]
DisplayColumns(df, with_source) == [i \in 1..Len(df) |-> IF with_source THEN SourceRow(df[i]) ELSE DisplayRow(df[i])]
NameKey(name) == IF name = NA THEN Len(NameOrder) + 1 ELSE Rank(name)
RawBefore(a, b) == a.Date < b.Date \/ (a.Date = b.Date /\ NameKey(a.Student_Name) < NameKey(b.Student_Name))
InsertRow(r, sorted) == LET k == Cardinality({i \in 1..Len(sorted) : ~RawBefore(r, sorted[i])}) IN SubSeq(sorted, 1, k) \o <<r>> \o SubSeq(sorted, k + 1, Len(sorted))
RECURSIVE StableSort(_)
StableSort(t) == IF t = <<>> THEN <<>> ELSE InsertRow(t[Len(t)], StableSort(SubSeq(t, 1, Len(t) - 1)))
RawTable(df, with_source) == StableSort(DisplayColumns(df, with_source))

\* ------------------------------------------------------------------------
\* State
\* ------------------------------------------------------------------------
\* session state: the files on disk, the st.cache_data cache of load_data,
\* and (history) the value each argument pair returned on its first
\* successful call
VARIABLES disk, cache, earlier

\* one script run: position, widget values, loaded frames, rendered elements
VARIABLES pc, attendance_path, student_master_path, data_loaded, did_read, df, students_master, ui

\* filter widgets and the filtered frame
VARIABLES selected_students, selected_subjects, selected_teachers, min_date, max_date, start_date, end_date, filtered_df

\* aggregation results
VARIABLES overview, student_summary, teacher_summary, subject_summary_all, student_subject_summary, daily_summary, date_subject_pivot, raw_table

session == <<disk, cache, earlier>>
loading == <<attendance_path, student_master_path, data_loaded, did_read, df, students_master>>
criteria == <<selected_students, selected_subjects, selected_teachers, min_date, max_date, start_date, end_date>>
summaries == <<overview, student_summary, teacher_summary, subject_summary_all>>
details == <<student_subject_summary, daily_summary, date_subject_pivot>>
results == <<overview, student_summary, teacher_summary, subject_summary_all, student_subject_summary, daily_summary, date_subject_pivot, raw_table>>
vars == <<disk, cache, earlier, pc, attendance_path, student_master_path, data_loaded, did_read, df, students_master, ui, selected_students, selected_subjects, selected_teachers, min_date, max_date, start_date, end_date, filtered_df, overview, student_summary, teacher_summary, subject_summary_all, student_subject_summary, daily_summary, date_subject_pivot, raw_table>>

\* ------------------------------------------------------------------------
\* Input spaces
\* ------------------------------------------------------------------------
Days == 0..(MaxDay - 1)
Midnight(d) == d * TicksPerDay
LastTick(d) == d * TicksPerDay + (TicksPerDay - 1)

AttendanceRows(D, S, T, U, M) == [Date : D, Student_Name : S, Teacher_Name : T, Subject : U, Duration_Minutes : M]

Tables(rows, n) == UNION {[1..k -> rows] : k \in 0..n}

MasterRow(id, name) == [Student_ID |-> id, Name |-> name, Grade |-> 5 + id, Email |-> "mail", Status |-> "Active"]

\* master lists: Student_ID is the row number; names may repeat
MasterTables(names) == UNION {{[i \in 1..k |-> MasterRow(i, f[i])] : f \in [1..k -> names]} : k \in 0..MaxMaster}

DefaultMaster == <<MasterRow(1, "Amy"), MasterRow(2, "Zed")>>

\* attendance workbooks in which the dates vary: the first and the last
\* instant of each day, and text that is no date
DateTables == Tables(AttendanceRows({DatetimeCell(Midnight(d)) : d \in Days} \cup {DatetimeCell(LastTick(d)) : d \in Days} \cup {UnparseableCell}, {"Amy"}, {"Tom"}, {"Math"}, {60}), MaxRows)
\* the students and the dates vary together
StudentDateTables == Tables(AttendanceRows({DatetimeCell(Midnight(0)), DatetimeCell(LastTick(MaxDay - 1))}, {"Amy", "Zed"}, {"Tom"}, {"Math"}, {60}), MaxRows)
\* the subjects and the teachers vary together
SubjectTeacherTables == Tables(AttendanceRows({DatetimeCell(0)}, {"Amy"}, {"Tom", "Uma"}, {"Math", "Sci"}, {60}), MaxRows)
\* one grouping key and the durations vary
StudentDurationTables == Tables(AttendanceRows({DatetimeCell(0)}, {"Amy", "Zed", NA}, {"Tom"}, {"Math"}, {NaN, 30, 60}), MaxRows)
TeacherDurationTables == Tables(AttendanceRows({DatetimeCell(0)}, {"Amy"}, {"Tom", "Uma", NA}, {"Math"}, {30, 60}), MaxRows)
SubjectDurationTables == Tables(AttendanceRows({DatetimeCell(0)}, {"Amy"}, {"Tom"}, {"Math", "Sci", NA}, {30, 60}), MaxRows)
\* the presence of the date, the student and the master list vary
JoinTables == Tables(AttendanceRows({DatetimeCell(0), BlankCell}, {"Amy", NA}, {"Tom"}, {"Math"}, {60}), MaxRows)

InputCases == {[attendance |-> Workbook(t), master |-> Workbook(DefaultMaster)] : t \in DateTables \cup StudentDateTables \cup SubjectTeacherTables \cup StudentDurationTables \cup TeacherDurationTables \cup SubjectDurationTables} \cup {[attendance |-> Workbook(t), master |-> Workbook(m)] : t \in JoinTables, m \in MasterTables({"Amy", "Bob"})} \cup {[attendance |-> a, master |-> m] : a \in {CorruptFile, NoColumnsFile, MissingFile, Workbook(<<>>)}, m \in {CorruptFile, NoColumnsFile, Workbook(DefaultMaster)}}

DiskOf(case) == [p \in Paths |-> IF p = "attendance_master_nov.xlsx" THEN case.attendance ELSE IF p = DefaultMasterPath THEN case.master ELSE MissingFile]

\* ------------------------------------------------------------------------
\* Initial states
\* ------------------------------------------------------------------------
RunStart ==
    /\ pc = "files"
    /\ attendance_path = ""
    /\ student_master_path = ""
    /\ data_loaded = FALSE
    /\ did_read = FALSE
    /\ df = <<>>
    /\ students_master = <<>>
    /\ ui = {}
    /\ selected_students = {}
    /\ selected_subjects = {}
    /\ selected_teachers = {}
    /\ min_date = 0
    /\ max_date = 0
    /\ start_date = 0
    /\ end_date = 0
    /\ filtered_df = <<>>
    /\ overview = <<>>
    /\ student_summary = <<>>
    /\ teacher_summary = <<>>
    /\ subject_summary_all = <<>>
    /\ student_subject_summary = <<>>
    /\ daily_summary = <<>>
    /\ date_subject_pivot = <<>>
    /\ raw_table = <<>>

Init ==
    /\ disk \in {DiskOf(c) : c \in InputCases}
    /\ cache = <<>>
    /\ earlier = <<>>
    /\ RunStart

\* ------------------------------------------------------------------------
\* The script, top to bottom
\* ------------------------------------------------------------------------
\* lines 67-75: no attendance file matches the pattern
NoAttendanceFile ==
    /\ pc = "files"
    /\ Glob(disk) = {}
    /\ ui' = ui \cup {"error:no_attendance_file"}
    /\ pc' = "stopped"
    /\ UNCHANGED <<session, loading, criteria, filtered_df, results>>

\* lines 77-95: the selectbox offers the globbed files, the text input takes
\* any path (possibly empty)
SelectFiles ==
    /\ pc = "files"
    /\ Glob(disk) # {}
    /\ \E ap \in Glob(disk), mp \in MasterPaths \cup {""} :
        /\ attendance_path' = ap
        /\ student_master_path' = mp
    /\ pc' = "load"
    /\ UNCHANGED <<session, data_loaded, did_read, df, students_master, ui, criteria, filtered_df, results>>

\* (variant: the key is the first argument alone)
CacheLookupByAttendance(c, key) == IF \E k \in DOMAIN c : k[1] = key[1] THEN [hit |-> TRUE, value |-> c[CHOOSE k \in DOMAIN c : k[1] = key[1]]] ELSE [hit |-> FALSE, value |-> <<>>]

\* @st.cache_data lookup
CacheLookup(c, key) == IF key \in DOMAIN c THEN [hit |-> TRUE, value |-> c[key]] ELSE [hit |-> FALSE, value |-> <<>>]
Store(c, key, value) == [k \in DOMAIN c \cup {key} |-> IF k = key THEN value ELSE c[k]]
Remember(e, key, value) == IF key \in DOMAIN e THEN e ELSE Store(e, key, value)

\* lines 101: a path is empty, load_data is not called
LoadSkipped ==
    /\ pc = "load"
    /\ ~(attendance_path # "" /\ student_master_path # "")
    /\ pc' = "guard"
    /\ UNCHANGED <<session, loading, ui, criteria, filtered_df, results>>

\* lines 102-104, cache hit: the stored value is returned, the body does not run
LoadCached ==
    /\ pc = "load"
    /\ attendance_path # "" /\ student_master_path # ""
    /\ CacheLookup(cache, CacheKey(attendance_path, student_master_path)).hit
    /\ df' = CacheLookup(cache, CacheKey(attendance_path, student_master_path)).value.df
    /\ students_master' = CacheLookup(cache, CacheKey(attendance_path, student_master_path)).value.students
    /\ data_loaded' = TRUE
    /\ did_read' = FALSE
    /\ earlier' = Remember(earlier, CacheKey(attendance_path, student_master_path), CacheLookup(cache, CacheKey(attendance_path, student_master_path)).value)
    /\ pc' = "guard"
    /\ UNCHANGED <<disk, cache, attendance_path, student_master_path, ui, criteria, filtered_df, results>>

\* lines 102-104, cache miss and the body returns: the value is stored
LoadRead ==
    /\ pc = "load"
    /\ attendance_path # "" /\ student_master_path # ""
    /\ ~CacheLookup(cache, CacheKey(attendance_path, student_master_path)).hit
    /\ load_data(disk[attendance_path], disk[student_master_path]).raised = "none"
    /\ df' = load_data(disk[attendance_path], disk[student_master_path]).value.df
    /\ students_master' = load_data(disk[attendance_path], disk[student_master_path]).value.students
    /\ data_loaded' = TRUE
    /\ did_read' = TRUE
    /\ cache' = Store(cache, CacheKey(attendance_path, student_master_path), load_data(disk[attendance_path], disk[student_master_path]).value)
    /\ earlier' = Remember(earlier, CacheKey(attendance_path, student_master_path), load_data(disk[attendance_path], disk[student_master_path]).value)
    /\ pc' = "guard"
    /\ UNCHANGED <<disk, attendance_path, student_master_path, ui, criteria, filtered_df, results>>

\* lines 102-108, cache miss and the body raises: nothing is stored, the
\* matching except clause shows its message; an exception no clause matches
\* ends the run
LoadFailed ==
    /\ pc = "load"
    /\ attendance_path # "" /\ student_master_path # ""
    /\ ~CacheLookup(cache, CacheKey(attendance_path, student_master_path)).hit
    /\ load_data(disk[attendance_path], disk[student_master_path]).raised # "none"
    /\ did_read' = TRUE
    /\ IF ExceptClause(load_data(disk[attendance_path], disk[student_master_path]).raised) = "uncaught"
       THEN pc' = "crashed" /\ ui' = ui \cup {"exception:" \o load_data(disk[attendance_path], disk[student_master_path]).raised}
       ELSE pc' = "guard" /\ ui' = ui \cup {ExceptClause(load_data(disk[attendance_path], disk[student_master_path]).raised)}
    /\ UNCHANGED <<session, attendance_path, student_master_path, data_loaded, df, students_master, criteria, filtered_df, results>>

\* lines 110-112
NoValidData ==
    /\ pc = "guard"
    /\ (~data_loaded \/ df = <<>>)
    /\ ui' = ui \cup {"error:no_valid_data"}
    /\ pc' = "stopped"
    /\ UNCHANGED <<session, loading, criteria, filtered_df, results>>

\* lines 120-124
DropMissingDates ==
    /\ pc = "guard"
    /\ data_loaded /\ df # <<>>
    /\ df' = DropNaDate(df)
    /\ IF DropNaDate(df) = <<>>
       THEN pc' = "stopped" /\ ui' = ui \cup {"error:no_valid_dates"}
       ELSE pc' = "filters" /\ ui' = ui
    /\ UNCHANGED <<session, attendance_path, student_master_path, data_loaded, did_read, students_master, criteria, filtered_df, results>>

\* lines 126-195: the three multiselects, the date bounds, the date input and
\* its normalisation
SelectFilters ==
    /\ pc = "filters"
    /\ selected_students' \in SUBSET OptionList(df, "Student_Name")
    /\ selected_subjects' \in SUBSET OptionList(df, "Subject")
    /\ selected_teachers' \in SUBSET OptionList(df, "Teacher_Name")
    /\ min_date' = DateOf(MinOf(DatesOf(df)))
    /\ max_date' = DateOf(MaxOf(DatesOf(df)))
    /\ \E date_range \in DateInputs(DateOf(MinOf(DatesOf(df))), DateOf(MaxOf(DatesOf(df)))) :
        /\ start_date' = NormStart(RawStart(date_range, DateOf(MinOf(DatesOf(df)))), RawEnd(date_range, DateOf(MaxOf(DatesOf(df)))))
        /\ end_date' = NormEnd(RawStart(date_range, DateOf(MinOf(DatesOf(df)))), RawEnd(date_range, DateOf(MaxOf(DatesOf(df)))))
    /\ pc' = "apply"
    /\ UNCHANGED <<session, loading, ui, filtered_df, results>>

\* (variant: the empty check is missing)
ApplyFiltersUnguarded ==
    /\ pc = "apply"
    /\ filtered_df' = ApplyFiltersTo(df, selected_students, selected_subjects, selected_teachers, start_date, end_date)
    /\ pc' = "overview"
    /\ UNCHANGED <<session, loading, ui, criteria, results>>

\* lines 200-226
ApplyFilters ==
    /\ pc = "apply"
    /\ filtered_df' = ApplyFiltersTo(df, selected_students, selected_subjects, selected_teachers, start_date, end_date)
    /\ IF filtered_df' = <<>>
       THEN pc' = "stopped" /\ ui' = ui \cup {"warning:no_data"}
       ELSE pc' = "overview" /\ ui' = ui
    /\ UNCHANGED <<session, loading, criteria, results>>

\* lines 231-250
ShowOverview ==
    /\ pc = "overview"
    /\ overview' = Overview(filtered_df)
    /\ ui' = ui \cup {"metrics:overview"}
    /\ pc' = "student_summary"
    /\ UNCHANGED <<session, loading, criteria, filtered_df, student_summary, teacher_summary, subject_summary_all, details, raw_table>>

\* lines 257-281
StudentSummary ==
    /\ pc = "student_summary"
    /\ student_summary' \in SortValuesDescending(GroupByStudent(filtered_df))
    /\ ui' = ui \cup {"table:student_summary"}
    /\ pc' = "teacher_summary"
    /\ UNCHANGED <<session, loading, criteria, filtered_df, overview, teacher_summary, subject_summary_all, details, raw_table>>

\* lines 290-307
TeacherSummary ==
    /\ pc = "teacher_summary"
    /\ teacher_summary' \in SortValuesDescending(GroupByTeacher(filtered_df))
    /\ ui' = ui \cup {"table:teacher_summary"}
    /\ pc' = "subject_summary"
    /\ UNCHANGED <<session, loading, criteria, filtered_df, overview, student_summary, subject_summary_all, details, raw_table>>

\* lines 309-326
SubjectSummary ==
    /\ pc = "subject_summary"
    /\ subject_summary_all' \in SortValuesDescending(GroupBySubject(filtered_df))
    /\ ui' = ui \cup {"table:subject_summary"}
    /\ pc' = "detail"
    /\ UNCHANGED <<session, loading, criteria, filtered_df, overview, student_summary, teacher_summary, details, raw_table>>

\* lines 335-392: exactly one student is selected
StudentRows(fdf, selected) == SelectSeq(fdf, LAMBDA r : r.Student_Name \in selected)
\* (variant: any non-empty selection)
DetailEnabledAny(selected) == Cardinality(selected) >= 1

DetailEnabled(selected) == Cardinality(selected) = 1

DetailView ==
    /\ pc = "detail"
    /\ DetailEnabled(selected_students)
    /\ student_subject_summary' \in SortValuesDescending(GroupByStudentSubject(StudentRows(filtered_df, selected_students)))
    /\ daily_summary' = DailySummary(StudentRows(filtered_df, selected_students))
    /\ date_subject_pivot' = DateSubjectPivot(StudentRows(filtered_df, selected_students))
    /\ ui' = ui \cup {"table:student_subject_summary", "table:daily_summary", "table:date_subject_pivot"}
    /\ pc' = "raw_table"
    /\ UNCHANGED <<session, loading, criteria, filtered_df, summaries, raw_table>>

\* lines 394-397
DetailGuidance ==
    /\ pc = "detail"
    /\ ~DetailEnabled(selected_students)
    /\ ui' = ui \cup {"info:select_one_student"}
    /\ pc' = "raw_table"
    /\ UNCHANGED <<session, loading, criteria, filtered_df, results>>

\* lines 404-422: the workbooks of the model have no Source_File column
HasSourceFile == FALSE

RawTableView ==
    /\ pc = "raw_table"
    /\ \E show_source \in BOOLEAN :
        raw_table' = RawTable(filtered_df, show_source /\ HasSourceFile)
    /\ ui' = ui \cup {"table:raw"}
    /\ pc' = "done"
    /\ UNCHANGED <<session, loading, criteria, filtered_df, summaries, details>>

\* the steps after the load boundary
Pipeline ==
    \/ NoValidData
    \/ DropMissingDates
    \/ SelectFilters
    \/ ApplyFilters
    \/ ShowOverview
    \/ StudentSummary
    \/ TeacherSummary
    \/ SubjectSummary
    \/ DetailView
    \/ DetailGuidance
    \/ RawTableView

\* a widget change or a page reload starts the script again from the top;
\* the cache outlives the run
Rerun ==
    /\ pc \in {"done", "stopped", "crashed"}
    /\ pc' = "files"
    /\ attendance_path' = ""
    /\ student_master_path' = ""
    /\ data_loaded' = FALSE
    /\ did_read' = FALSE
    /\ df' = <<>>
    /\ students_master' = <<>>
    /\ ui' = {}
    /\ selected_students' = {}
    /\ selected_subjects' = {}
    /\ selected_teachers' = {}
    /\ min_date' = 0
    /\ max_date' = 0
    /\ start_date' = 0
    /\ end_date' = 0
    /\ filtered_df' = <<>>
    /\ overview' = <<>>
    /\ student_summary' = <<>>
    /\ teacher_summary' = <<>>
    /\ subject_summary_all' = <<>>
    /\ student_subject_summary' = <<>>
    /\ daily_summary' = <<>>
    /\ date_subject_pivot' = <<>>
    /\ raw_table' = <<>>
    /\ UNCHANGED session

\* the environment removes a file between two steps
DeleteFile ==
    /\ \E p \in Paths :
        /\ disk[p].kind # "missing"
        /\ disk' = [disk EXCEPT ![p] = MissingFile]
    /\ UNCHANGED <<cache, earlier, pc, loading, ui, criteria, filtered_df, results>>

\* the first run of a session: the cache is empty, so the call of load_data
\* always executes its body
Next ==
    \/ NoAttendanceFile
    \/ SelectFiles
    \/ LoadSkipped
    \/ LoadRead
    \/ LoadFailed
    \/ Pipeline

Spec == Init /\ [][Next]_vars

\* a session with two attendance files and two master lists, whose files
\* may disappear while it lasts
NovRows == <<[Date |-> DatetimeCell(0), Student_Name |-> "Amy", Teacher_Name |-> "Tom", Subject |-> "Math", Duration_Minutes |-> 60]>>
DecRows == <<[Date |-> DatetimeCell(Midnight(1)), Student_Name |-> "Zed", Teacher_Name |-> "Uma", Subject |-> "Sci", Duration_Minutes |-> 30]>>
OtherMaster == <<MasterRow(1, "Zed")>>

SessionDisks == {[p \in Paths |-> IF p = "attendance_master_nov.xlsx" THEN Workbook(NovRows) ELSE IF p = "attendance_master_dec.xlsx" THEN dec ELSE IF p = DefaultMasterPath THEN Workbook(DefaultMaster) ELSE other] : dec \in {Workbook(DecRows), CorruptFile}, other \in {Workbook(OtherMaster), NoColumnsFile, MissingFile}}

SessionInit ==
    /\ disk \in SessionDisks
    /\ cache = <<>>
    /\ earlier = <<>>
    /\ RunStart

SessionNext == Next \/ LoadCached \/ Rerun \/ DeleteFile

SessionSpec == SessionInit /\ [][SessionNext]_vars

\* ------------------------------------------------------------------------
\* Vocabulary of the properties
\* ------------------------------------------------------------------------
AggregationStages == {"overview", "student_summary", "teacher_summary", "subject_summary", "detail", "raw_table"}
AggregationOutputs == {"metrics:overview", "table:student_summary", "table:teacher_summary", "table:subject_summary", "table:student_subject_summary", "table:daily_summary", "table:date_subject_pivot", "table:raw"}
ErrorMessages == {"error:no_attendance_file", "error:file_not_found", "error:load_error", "error:no_valid_data", "error:no_valid_dates"}

\* the filter stage of the current run has produced filtered_df
Filtered == pc \in AggregationStages \cup {"done"} \/ "warning:no_data" \in ui

NothingAggregated == ui \cap AggregationOutputs = {} /\ results = <<<<>>, <<>>, <<>>, <<>>, <<>>, <<>>, <<>>, <<>>>>

CountIn(t, r) == Cardinality({i \in 1..Len(t) : t[i] = r})

\* the filter rule of the specification, for one record
Passes(r) ==
    /\ (selected_students = {} \/ r.Student_Name \in selected_students)
    /\ (selected_subjects = {} \/ r.Subject \in selected_subjects)
    /\ (selected_teachers = {} \/ r.Teacher_Name \in selected_teachers)
    /\ start_date <= r.Date \div TicksPerDay
    /\ r.Date \div TicksPerDay <= end_date

\* C1: once the filters are applied, a joined record is in the filtered
\* collection (as often as in the input) iff it meets the student, subject,
\* teacher and date conditions, and the passing and the failing records
\* together are exactly the input.
C1_FilterRule ==
    Filtered =>
        /\ \A i \in 1..Len(df) : CountIn(filtered_df, df[i]) = (IF Passes(df[i]) THEN CountIn(df, df[i]) ELSE 0)
        /\ \A i \in 1..Len(filtered_df) : CountIn(df, filtered_df[i]) > 0
        /\ Len(filtered_df) + Cardinality({i \in 1..Len(df) : ~Passes(df[i])}) = Len(df)

C1_Witness ==
    /\ Filtered
    /\ selected_students # {}
    /\ \E i, j \in 1..Len(df) : Passes(df[i]) /\ ~Passes(df[j]) /\ df[j].Student_Name \in selected_students

\* C9: with no student, subject or teacher selected and the date interval
\* [min Date, max Date] of the loaded collection, the filtered collection has
\* the same rows, each as often, as the loaded post-cleaning collection.
C9_FullRangeRoundTrip ==
    (Filtered /\ selected_students = {} /\ selected_subjects = {} /\ selected_teachers = {} /\ start_date = min_date /\ end_date = max_date) =>
        /\ Len(filtered_df) = Len(df)
        /\ \A i \in 1..Len(df) : CountIn(filtered_df, df[i]) = CountIn(df, df[i])

C9_Witness ==
    /\ pc = "done"
    /\ selected_students = {} /\ selected_subjects = {} /\ selected_teachers = {}
    /\ start_date = min_date /\ end_date = max_date /\ min_date < max_date
    /\ \E i \in 1..Len(df) : df[i].Date % TicksPerDay # 0 /\ df[i].Date \div TicksPerDay = max_date
    /\ Len(filtered_df) = Len(df)

\* ------------------------------------------------------------------------
\* Summaries
\* ------------------------------------------------------------------------
HoursColumn(t) == [i \in 1..Len(t) |-> t[i].Total_Duration_Hours]
KeysOf(t, col) == {t[i][col] : i \in 1..Len(t)}
FirstIndex(t, col, k) == MinOf({i \in 1..Len(t) : t[i][col] = k})
SameHours(a, b) == a.Total_Duration_Hours[1] * b.Total_Duration_Hours[2] = b.Total_Duration_Hours[1] * a.Total_Duration_Hours[2]
MoreHours(a, b) == a.Total_Duration_Hours[1] * b.Total_Duration_Hours[2] > b.Total_Duration_Hours[1] * a.Total_Duration_Hours[2]

\* C2: for each grouping key, the Total_Duration_Hours of the summary rows
\* add up to the Duration_Hours of the whole filtered collection, also when
\* some records have no value in the key column.
C2_GroupSumsEqualTotal ==
    /\ "table:student_summary" \in ui => RatSum(HoursColumn(student_summary)) = TotalHours(filtered_df)
    /\ "table:teacher_summary" \in ui => RatSum(HoursColumn(teacher_summary)) = TotalHours(filtered_df)
    /\ "table:subject_summary" \in ui => RatSum(HoursColumn(subject_summary_all)) = TotalHours(filtered_df)

\* one row per distinct (non-missing) key value, in descending order of
\* Total_Duration_Hours
OneRowPerKeyDescending(t, col) ==
    /\ KeysOf(t, col) = {filtered_df[i][col] : i \in 1..Len(filtered_df)} \ {NA}
    /\ \A i, j \in 1..Len(t) : i # j => t[i][col] # t[j][col]
    /\ \A i, j \in 1..Len(t) : i < j => (MoreHours(t[i], t[j]) \/ SameHours(t[i], t[j]))

\* rows with equal totals in the order of first occurrence of their keys
TiesByFirstOccurrence(t, col) == \A i, j \in 1..Len(t) : (i < j /\ SameHours(t[i], t[j])) => FirstIndex(filtered_df, col, t[i][col]) < FirstIndex(filtered_df, col, t[j][col])

\* C3 (as stated): one row per distinct key value, descending totals, and
\* rows with equal totals in the order in which their key values first occur
\* in the filtered collection.
C3_TiesInFirstOccurrenceOrder ==
    /\ "table:student_summary" \in ui => (OneRowPerKeyDescending(student_summary, "Student_Name") /\ TiesByFirstOccurrence(student_summary, "Student_Name"))
    /\ "table:teacher_summary" \in ui => (OneRowPerKeyDescending(teacher_summary, "Teacher_Name") /\ TiesByFirstOccurrence(teacher_summary, "Teacher_Name"))
    /\ "table:subject_summary" \in ui => (OneRowPerKeyDescending(subject_summary_all, "Subject") /\ TiesByFirstOccurrence(subject_summary_all, "Subject"))

\* C3 (amended): each summary has exactly one row per distinct non-missing
\* key value of the filtered collection, in descending order of
\* Total_Duration_Hours; nothing is promised about rows with equal totals.
C3_OneRowPerKeyDescending ==
    /\ "table:student_summary" \in ui => OneRowPerKeyDescending(student_summary, "Student_Name")
    /\ "table:teacher_summary" \in ui => OneRowPerKeyDescending(teacher_summary, "Teacher_Name")
    /\ "table:subject_summary" \in ui => OneRowPerKeyDescending(subject_summary_all, "Subject")

C3_Witness ==
    /\ "table:subject_summary" \in ui
    /\ Len(student_summary) = 2 /\ MoreHours(student_summary[1], student_summary[2])
    /\ FirstIndex(filtered_df, "Student_Name", student_summary[2].Student_Name) < FirstIndex(filtered_df, "Student_Name", student_summary[1].Student_Name)

\* ------------------------------------------------------------------------
\* Terminal states of a run
\* ------------------------------------------------------------------------
\* C5: an empty filtered collection after a successful load ends the run in
\* the no-data state: a warning, no error message, no exception, and no
\* aggregation stage has run; aggregation runs on non-empty collections only.
C5_EmptyResultIsNoData ==
    /\ pc # "crashed"
    /\ (Filtered /\ filtered_df = <<>>) => (pc = "stopped" /\ "warning:no_data" \in ui /\ ui \cap ErrorMessages = {} /\ NothingAggregated)
    /\ (pc \in AggregationStages \cup {"done"} \/ ui \cap AggregationOutputs # {} \/ results # <<<<>>, <<>>, <<>>, <<>>, <<>>, <<>>, <<>>, <<>>>>) => (filtered_df # <<>> /\ "warning:no_data" \notin ui)

C5_Witness ==
    /\ pc = "stopped"
    /\ "warning:no_data" \in ui
    /\ selected_students = {} /\ selected_subjects = {} /\ selected_teachers = {}
    /\ min_date < start_date /\ end_date < max_date
    /\ df # <<>>

\* C6: in a run that reaches the detail stage, the daily breakdown and the
\* date x subject matrix are computed iff exactly one student is selected;
\* otherwise neither is computed, the guidance is shown, and the run goes on
\* to the raw table and completes.
C6_DetailIffOneStudent ==
    /\ pc # "crashed"
    /\ ({"table:daily_summary", "table:date_subject_pivot"} \cap ui # {} \/ daily_summary # <<>> \/ date_subject_pivot # <<>>) => Cardinality(selected_students) = 1
    /\ pc \in {"raw_table", "done"} =>
        IF Cardinality(selected_students) = 1
        THEN {"table:daily_summary", "table:date_subject_pivot"} \subseteq ui /\ "info:select_one_student" \notin ui /\ daily_summary # <<>> /\ date_subject_pivot # <<>>
        ELSE "info:select_one_student" \in ui /\ {"table:daily_summary", "table:date_subject_pivot"} \cap ui = {} /\ daily_summary = <<>> /\ date_subject_pivot = <<>>
    /\ ({"info:select_one_student", "table:daily_summary", "table:date_subject_pivot"} \cap ui # {}) => pc \in {"raw_table", "done"}
    /\ pc = "done" => "table:raw" \in ui

C6_Witness ==
    /\ pc = "done"
    /\ Cardinality(selected_students) = 2
    /\ "info:select_one_student" \in ui
    /\ "table:raw" \in ui

\* ------------------------------------------------------------------------
\* Loading
\* ------------------------------------------------------------------------
\* the attendance rows of the selected workbook with a date, after cleaning
RawRows == disk[attendance_path].rows
MasterRows == disk[student_master_path].rows
ValidRaw == SelectSeq(RawRows, LAMBDA r : r.Date.kind = "datetime")
CleanValid == [i \in 1..Len(ValidRaw) |-> [Date |-> ValidRaw[i].Date.val, Student_Name |-> ValidRaw[i].Student_Name, Teacher_Name |-> ValidRaw[i].Teacher_Name, Subject |-> ValidRaw[i].Subject, Duration_Minutes |-> IF ValidRaw[i].Duration_Minutes = NaN THEN 0 ELSE ValidRaw[i].Duration_Minutes, Duration_Hours |-> HoursOf(IF ValidRaw[i].Duration_Minutes = NaN THEN 0 ELSE ValidRaw[i].Duration_Minutes)]]
\* what the pipeline would hold had the workbook only its rows with a date
JoinedValid == MergeLeft(CleanValid, MasterRows)
PassingValid == SelectSeq(JoinedValid, Passes)

\* C8: a row whose Date does not parse becomes NaT without an exception, is
\* removed by the loader, and is in nothing downstream: the loaded and the
\* filtered collection, the date bounds, the overview metrics and the
\* summary rows are those of the rows with a date alone.
C8_UnparseableDatesExcluded ==
    /\ pc # "crashed"
    /\ data_loaded =>
        /\ \A i \in 1..Len(df) : df[i].Date # NaT
        /\ df = JoinedValid
    /\ pc \in {"apply"} \cup AggregationStages \cup {"done"} =>
        /\ min_date = MinOf({ValidRaw[i].Date.val : i \in 1..Len(ValidRaw)}) \div TicksPerDay
        /\ max_date = MaxOf({ValidRaw[i].Date.val : i \in 1..Len(ValidRaw)}) \div TicksPerDay
    /\ Filtered =>
        LET passing == PassingValid
        IN  /\ filtered_df = passing
            /\ "metrics:overview" \in ui =>
                /\ overview.total_records = Len(passing)
                /\ overview.total_duration_minutes = SumSeq([i \in 1..Len(passing) |-> passing[i].Duration_Minutes])
                /\ overview.unique_dates = Cardinality({passing[i].Date \div TicksPerDay : i \in 1..Len(passing)})
            /\ "table:student_summary" \in ui => \A i \in 1..Len(student_summary) : student_summary[i].Sessions = Cardinality({j \in 1..Len(passing) : passing[j].Student_Name = student_summary[i].Student_Name})
            /\ "table:teacher_summary" \in ui => \A i \in 1..Len(teacher_summary) : teacher_summary[i].Sessions = Cardinality({j \in 1..Len(passing) : passing[j].Teacher_Name = teacher_summary[i].Teacher_Name})
            /\ "table:subject_summary" \in ui => \A i \in 1..Len(subject_summary_all) : subject_summary_all[i].Sessions = Cardinality({j \in 1..Len(passing) : passing[j].Subject = subject_summary_all[i].Subject})

C8_Witness ==
    /\ pc = "done"
    /\ \E i, j \in 1..Len(RawRows) : i < j /\ RawRows[i].Date.kind = "unparseable" /\ RawRows[j].Date.kind = "datetime"
    /\ Len(df) = 1

\* C10: load_data returns exactly one joined row per attendance row with a
\* parseable Date, the attendance fields unchanged, the master fields null
\* when no master Name equals the Student_Name; so the Duration_Minutes of
\* the joined collection add up to those of the date-valid attendance rows.
C10_JoinKeepsEachRowOnce ==
    data_loaded =>
        /\ Len(df) = Len(CleanValid)
        /\ \A i \in 1..Len(df) : i <= Len(CleanValid) => DisplayRow(df[i]) = CleanValid[i]
        /\ \A i \in 1..Len(df) : (\A m \in 1..Len(MasterRows) : MasterRows[m].Name # df[i].Student_Name) => (df[i].Student_ID = NaN /\ df[i].Student_Name_Master = NA /\ df[i].Grade = NaN /\ df[i].Email = NA /\ df[i].Status = NA)
        /\ TotalMinutes(df) = SumSeq([i \in 1..Len(CleanValid) |-> CleanValid[i].Duration_Minutes])

\* ------------------------------------------------------------------------
\* The load boundary and the cache, over a session
\* ------------------------------------------------------------------------
\* load_data ran in this run and did not return
LoadFailure == did_read /\ ~data_loaded

\* the read that fails first does so because its file is not there
FirstFailureIsMissingFile == disk[attendance_path].kind = "missing" \/ (disk[attendance_path].kind \in {"xlsx", "no_columns"} /\ disk[student_master_path].kind = "missing")

FailedLoadStep ==
    (pc = "load" /\ pc' # "load" /\ did_read' /\ ~data_loaded') =>
        /\ pc' = "guard"
        /\ ui' = ui \cup {IF FirstFailureIsMissingFile THEN "error:file_not_found" ELSE "error:load_error"}

\* C4: when load_data fails, the failure is caught and shown as a message,
\* the FileNotFound message for a missing source and the LoadError message
\* for any other failure; no exception escapes, the run stops before the
\* filter stage and produces no filter or aggregate result.
C4_LoadFailureReported ==
    /\ [][FailedLoadStep]_vars
    /\ [](pc # "crashed")
    /\ [](LoadFailure => (pc \in {"guard", "stopped"} /\ Cardinality(ui \cap {"error:file_not_found", "error:load_error"}) = 1 /\ filtered_df = <<>> /\ NothingAggregated /\ "warning:no_data" \notin ui))
    /\ []((LoadFailure /\ pc = "stopped") => "error:no_valid_data" \in ui)

C4_Witness ==
    /\ pc = "stopped"
    /\ LoadFailure
    /\ "error:file_not_found" \in ui
    /\ disk[attendance_path].kind = "missing"
    /\ cache # <<>>

MemoizedLoadStep ==
    (pc = "load" /\ pc' # "load" /\ attendance_path # "" /\ student_master_path # "") =>
        IF <<attendance_path, student_master_path>> \in DOMAIN earlier
        THEN ~did_read' /\ data_loaded' /\ df' = earlier[<<attendance_path, student_master_path>>].df /\ students_master' = earlier[<<attendance_path, student_master_path>>].students /\ earlier' = earlier
        ELSE did_read'

\* C7: in a session, a call of load_data with the argument pair of an
\* earlier successful call returns that call's result without reading the
\* files again; a call with a pair that has not succeeded before reads them.
C7_LoadMemoized == [][MemoizedLoadStep]_vars

C7_Witness ==
    /\ pc = "guard"
    /\ data_loaded /\ ~did_read
    /\ disk[attendance_path].kind = "missing"
    /\ Cardinality(DOMAIN cache) >= 2

=============================================================================
